---- MODULE Spec2Model ----
(***************************************************************************)
(* Model of packages/react/src/ReactContext.js: createContext and the      *)
(* global publish operation setContext (context.unstable_set), together    *)
(* with the root registry (ReactRootList) and the roots it dispatches to.  *)
(*                                                                         *)
(* JavaScript is single threaded, so the program is modelled as a call     *)
(* stack: host code runs when the stack is empty, a root's setContext runs *)
(* while a setContext frame is on top, and a caller callback runs while a  *)
(* userCallback frame is on top.  Every action runs the code from one      *)
(* external call (or return) to the next one.                              *)
(***************************************************************************)
EXTENDS Integers, Sequences, FiniteSets, TLC

\* ---- bounds ----
MaxRoots == 2        \* roots ever mounted
MaxPublishes == 2    \* setContext calls ever made
MaxContexts == 1     \* createContext calls ever made
MaxValue == 1        \* context values are 0..MaxValue
MaxDoneCalls == 2    \* times one root invokes the done callback of one publish

Null == 0            \* the null root pointer

\* The root objects; the last one is mounted only by the specification
\* with one root more.
Roots == 1..(MaxRoots + 1)
Values == 0..MaxValue

VARIABLES
  contexts,        \* the context objects created so far
  first,           \* ReactRootList.first
  nextGlobalRoot,  \* root.nextGlobalRoot of every root
  numMounted,      \* number of root objects created so far
  pubs,            \* one closure record per setContext call
  stack            \* the JavaScript call stack (external frames only)

vars == <<contexts, first, nextGlobalRoot, numMounted, pubs, stack>>

\* ---- the root registry ----

\* The roots reached from root by following nextGlobalRoot until null.
RECURSIVE Traverse(_, _)
Traverse(root, nxt) ==
  IF root = Null THEN <<>> ELSE <<root>> \o Traverse(nxt[root], nxt)

RegisteredRoots == Traverse(first, nextGlobalRoot)

SeqToSet(s) == {s[i] : i \in DOMAIN s}

\* A count that stops one root early: while (root.nextGlobalRoot !== null).
RECURSIVE CountRootsButLast(_, _)
CountRootsButLast(root, nxt) ==
  IF root = Null \/ nxt[root] = Null THEN 0
  ELSE 1 + CountRootsButLast(nxt[root], nxt)

\* let numRootsThatNeedUpdate = 0; do { += 1; root = root.nextGlobalRoot } while (root !== null)
RECURSIVE CountRoots(_, _)
CountRoots(root, nxt) ==
  IF root = Null THEN 0 ELSE 1 + CountRoots(nxt[root], nxt)

\* ---- the context cell ----

\* A createContext without lines 81-82: undefined stays undefined.
KeepChangedBits(calculateChangedBits) == calculateChangedBits

\* calculateChangedBits === undefined becomes null, anything else is kept.
NormalizeChangedBits(calculateChangedBits) ==
  IF calculateChangedBits = "undefined" THEN "null" ELSE calculateChangedBits

NewContext(defaultValue, calculateChangedBits) ==
  [ _calculateChangedBits |-> NormalizeChangedBits(calculateChangedBits),
    _globalValue          |-> defaultValue,
    _currentValue         |-> defaultValue,
    _currentValue2        |-> defaultValue,
    defaultValue          |-> defaultValue,  \* the arguments, kept for
    supplied              |-> calculateChangedBits,        \* reference
    committedBy           |-> 0 ]            \* the call that committed last

\* A commit that is left out.
contextDidNotUpdate(context, newValue) == context

\* A commit that writes the primary slot only.
contextDidUpdatePrimaryOnly(context, newValue) ==
  [context EXCEPT !._currentValue = newValue]

\* A commit that also writes the pending slot.
contextDidUpdateEverySlot(context, newValue) ==
  [context EXCEPT !._currentValue = newValue, !._currentValue2 = newValue,
                  !._globalValue = newValue]

\* context._currentValue = context._currentValue2 = newValue
contextDidUpdate(context, newValue) ==
  [context EXCEPT !._currentValue = newValue, !._currentValue2 = newValue]

\* A publish that leaves _globalValue alone until the commit.
KeepGlobalValue(context, newValue) == context

\* const oldValue = context._globalValue; context._globalValue = newValue
SetGlobalValue(context, newValue) ==
  [context EXCEPT !._globalValue = newValue]

\* A callback that is handed the committed value: cb(newValue).
UserCallbackArgsCommitted(newValue) == <<newValue>>

\* The arguments the caller callback is invoked with: cb() and userCallback().
UserCallbackArgs(newValue) == <<>>

\* A test that also fires below zero: numRootsThatNeedUpdate <= 0.
ReachedZeroOrBelow(numRootsThatNeedUpdate) == numRootsThatNeedUpdate <= 0

\* if (numRootsThatNeedUpdate === 0) inside the wrapped callback
ReachedZero(numRootsThatNeedUpdate) == numRootsThatNeedUpdate = 0

\* ---- the call stack ----

Top == stack[Len(stack)]
Pop == SubSeq(stack, 1, Len(stack) - 1)

Idle == stack = <<>>
InRoot == stack # <<>> /\ Top.kind = "setContext"
InUserCallback == stack # <<>> /\ Top.kind = "userCallback"

\* Code that may call into this module or into the renderer is running.
Caller ==
  IF Idle THEN "host" ELSE IF InRoot THEN "root" ELSE "userCallback"

\* root.setContext(context, oldValue, newValue, wrappedCallback) is running.
SetContextFrame(p, root) ==
  [kind |-> "setContext", pub |-> p, root |-> root, path |-> "dispatch"]

\* The caller callback is running: userCallback() on the path without roots
\* ("fast"), cb() inside the wrapped callback ("barrier").
UserCallbackFrame(p, path) ==
  [kind |-> "userCallback", pub |-> p, root |-> Null, path |-> path]

Init ==
  /\ contexts = <<>>
  /\ first = Null
  /\ nextGlobalRoot = [r \in Roots |-> Null]
  /\ numMounted = 0
  /\ pubs = <<>>
  /\ stack = <<>>

\* ---- createContext ----

\* createContext, while fewer than max contexts exist.
CreateContextUpTo(max, defaultValue, calculateChangedBits) ==
  /\ Len(contexts) < max
  /\ contexts' = Append(contexts, NewContext(defaultValue, calculateChangedBits))
  /\ UNCHANGED <<first, nextGlobalRoot, numMounted, pubs, stack>>

CreateContext(defaultValue, calculateChangedBits) ==
  CreateContextUpTo(MaxContexts, defaultValue, calculateChangedBits)

\* ---- root lifecycle (the renderer mounts and unmounts roots) ----

Last(s) == s[Len(s)]

\* A new root object is appended to the list, while fewer than max root
\* objects exist.
MountUpTo(max) ==
  /\ numMounted < max
  /\ LET root == numMounted + 1 IN
       /\ numMounted' = root
       /\ IF first = Null
            THEN /\ first' = root
                 /\ UNCHANGED nextGlobalRoot
            ELSE /\ nextGlobalRoot' =
                      [nextGlobalRoot EXCEPT ![Last(RegisteredRoots)] = root]
                 /\ UNCHANGED first
  /\ UNCHANGED <<contexts, pubs, stack>>

Mount == MountUpTo(MaxRoots)

\* A registered root is unlinked from the list.
Unmount(root) ==
  /\ root \in SeqToSet(RegisteredRoots)
  /\ first' = IF first = root THEN nextGlobalRoot[root] ELSE first
  /\ nextGlobalRoot' =
       [r \in Roots |->
          IF r = root THEN Null
          ELSE IF nextGlobalRoot[r] = root THEN nextGlobalRoot[root]
          ELSE nextGlobalRoot[r]]
  /\ UNCHANGED <<contexts, numMounted, pubs, stack>>

\* ---- setContext ----

\* The history of the cell: call p was the last to commit.
Stamp(context, p) == [context EXCEPT !.committedBy = p]

\* What the caller callback observes when it is invoked.
Fire(p, context, newValue, doneCalls) ==
  [ args          |-> UserCallbackArgs(newValue),
    doneCalls     |-> doneCalls,
    currentValue  |-> context._currentValue,
    currentValue2 |-> context._currentValue2 ]

\* The closure of one setContext call, with the history of the call.
NewPub(c, oldValue, newValue, userCallback) ==
  [ context   |-> c,
    oldValue  |-> oldValue,
    newValue  |-> newValue,
    userCallback |-> userCallback,
    wrappedCallback |-> "null",
    numRootsThatNeedUpdate |-> 0,
    caller     |-> Caller,
    counted    |-> RegisteredRoots,  \* roots registered when the call was made
    dispatched |-> <<>>,             \* roots whose setContext was invoked
    handed     |-> <<>>,             \* (context, oldValue, newValue) they got
    doneBy     |-> [r \in Roots |-> 0],  \* done calls of every root
    commits    |-> {},
    fires      |-> <<>>,
    returned   |-> FALSE ]

DoneCalls(pub) ==
  LET RECURSIVE Sum(_)
      Sum(n) == IF n = 0 THEN 0 ELSE pub.doneBy[n] + Sum(n - 1)
  IN Sum(MaxRoots + 1)

\* Counted roots that have not invoked the done callback.
Outstanding(pub) == {r \in SeqToSet(pub.counted) : pub.doneBy[r] = 0}

\* The arguments of root.setContext(context, oldValue, newValue, ...).
Handed(c, oldValue, newValue) == <<c, oldValue, newValue>>

\* Lines 28-72: from the call up to the first external call or the return.
SetContext(c, newValue, userCallback) ==
  /\ Len(pubs) < MaxPublishes
  /\ c \in DOMAIN contexts
  /\ LET p         == Len(pubs) + 1
         oldValue  == contexts[c]._globalValue
         published == SetGlobalValue(contexts[c], newValue)
         pub       == NewPub(c, oldValue, newValue, userCallback)
     IN
     IF first = Null
       THEN \* There are no mounted roots.
         LET committed == contextDidUpdate(published, newValue) IN
         /\ contexts' = [contexts EXCEPT ![c] = Stamp(committed, p)]
         /\ pubs' = Append(pubs,
              [pub EXCEPT
                 !.commits = {[value |-> committed._currentValue,
                               outstanding |-> {}]},
                 !.fires = IF userCallback
                             THEN <<Fire(p, committed, newValue, 0)>>
                             ELSE <<>>,
                 !.returned = ~userCallback])
         /\ stack' = IF userCallback
                       THEN Append(stack, UserCallbackFrame(p, "fast"))
                       ELSE stack
       ELSE
         /\ contexts' = [contexts EXCEPT ![c] = published]
         /\ pubs' = Append(pubs,
              [pub EXCEPT
                 !.wrappedCallback =
                    IF userCallback THEN "counter" ELSE "bound",
                 !.numRootsThatNeedUpdate =
                    IF userCallback THEN CountRoots(first, nextGlobalRoot)
                                    ELSE 0,
                 !.dispatched = <<first>>,
                 !.handed = <<Handed(c, oldValue, newValue)>>])
         /\ stack' = Append(stack, SetContextFrame(p, first))
  /\ UNCHANGED <<first, nextGlobalRoot, numMounted>>

\* Lines 73, 70-72 and 75: the root's setContext returns, the loop goes on
\* with root.nextGlobalRoot and calls the next root or returns.
RootReturn ==
  /\ InRoot
  /\ LET p    == Top.pub
         root == nextGlobalRoot[Top.root]
     IN
     IF root # Null
       THEN /\ pubs' = [pubs EXCEPT
                         ![p].dispatched = Append(@, root),
                         ![p].handed = Append(@,
                            Handed(pubs[p].context, pubs[p].oldValue,
                                   pubs[p].newValue))]
            /\ stack' = Append(Pop, SetContextFrame(p, root))
       ELSE /\ pubs' = [pubs EXCEPT ![p].returned = TRUE]
            /\ stack' = Pop
  /\ UNCHANGED <<contexts, first, nextGlobalRoot, numMounted>>

\* One counter per context instead of one per call.
DecrementShared(ps, p) ==
  [q \in DOMAIN ps |->
     IF ps[q].context = ps[p].context /\ ps[q].wrappedCallback = "counter"
       THEN [ps[q] EXCEPT !.numRootsThatNeedUpdate = @ - 1]
       ELSE ps[q]]

\* numRootsThatNeedUpdate -= 1 on the counter captured by the closure of
\* publish p.
Decrement(ps, p) ==
  [ps EXCEPT ![p].numRootsThatNeedUpdate = @ - 1]

\* A wrapped callback that commits the value the root passes to it.
CommittedArgument(newValue, committedValue) == committedValue

\* The value the wrapped callback commits: the newValue captured by the
\* closure (line 47) or bound (line 59), whatever argument the root passes.
CommittedValue(newValue, committedValue) == newValue

\* Lines 44-50 and 59: a root invokes the callback it was handed, inside its
\* own setContext (synchronously) or from host code (later), with an
\* argument of its choice.
Done(root, p, committedValue) ==
  /\ p \in DOMAIN pubs
  /\ root \in SeqToSet(pubs[p].dispatched)
  /\ pubs[p].doneBy[root] < MaxDoneCalls
  /\ Idle \/ (InRoot /\ Top.root = root)
  /\ LET called    == [pubs EXCEPT ![p].doneBy[root] = @ + 1]
         c         == pubs[p].context
         newValue  == pubs[p].newValue
         committed == contextDidUpdate(contexts[c],
                         CommittedValue(newValue, committedValue))
         commit    == [value |-> committed._currentValue,
                       outstanding |-> Outstanding(called[p])]
     IN
     IF pubs[p].wrappedCallback = "bound"
       THEN \* contextDidUpdate.bind(null, context, newValue)
         /\ contexts' = [contexts EXCEPT ![c] = Stamp(committed, p)]
         /\ pubs' = [called EXCEPT ![p].commits = @ \cup {commit}]
         /\ UNCHANGED stack
       ELSE
         LET counted == Decrement(called, p) IN
         IF ReachedZero(counted[p].numRootsThatNeedUpdate)
           THEN
             /\ contexts' = [contexts EXCEPT ![c] = Stamp(committed, p)]
             /\ pubs' = [counted EXCEPT
                  ![p].commits = @ \cup {commit},
                  ![p].fires = Append(@,
                     Fire(p, committed, newValue, DoneCalls(called[p])))]
             /\ stack' = Append(stack, UserCallbackFrame(p, "barrier"))
           ELSE
             /\ pubs' = counted
             /\ UNCHANGED <<contexts, stack>>
  /\ UNCHANGED <<first, nextGlobalRoot, numMounted>>

\* The caller callback returns; on the path without roots setContext
\* returns right after it (line 55).
UserCallbackReturn ==
  /\ InUserCallback
  /\ pubs' = IF Top.path = "fast"
               THEN [pubs EXCEPT ![Top.pub].returned = TRUE]
               ELSE pubs
  /\ stack' = Pop
  /\ UNCHANGED <<contexts, first, nextGlobalRoot, numMounted>>

Next ==
  \/ \E d \in Values, f \in {"undefined", "null", "function"} :
        CreateContext(d, f)
  \/ Mount
  \/ \E r \in Roots : Unmount(r)
  \/ \E c \in 1..MaxContexts, v \in Values, cb \in BOOLEAN :
        SetContext(c, v, cb)
  \/ RootReturn
  \/ \E r \in Roots, p \in 1..MaxPublishes, v \in Values : Done(r, p, v)
  \/ UserCallbackReturn

Spec == Init /\ [][Next]_vars

\* ---- roots that keep their contract ----

\* A setContext call has not returned yet.
DuringPublish ==
  \E i \in DOMAIN stack :
    stack[i].kind = "setContext" \/ stack[i].path = "fast"

\* A root invokes the done callback of a publish for the first time.
DoneOnce(root, p, committedValue) ==
  /\ p \in DOMAIN pubs
  /\ pubs[p].doneBy[root] = 0
  /\ Done(root, p, committedValue)

\* The renderer mounts and unmounts roots between setContext calls only.
MountBetween == ~DuringPublish /\ Mount
UnmountBetween(root) == ~DuringPublish /\ Unmount(root)

NextLive ==
  \/ \E d \in Values, f \in {"undefined", "null", "function"} :
        CreateContext(d, f)
  \/ MountBetween
  \/ \E r \in Roots : UnmountBetween(r)
  \/ \E c \in 1..MaxContexts, v \in Values, cb \in BOOLEAN :
        SetContext(c, v, cb)
  \/ RootReturn
  \/ \E r \in Roots, p \in 1..MaxPublishes, v \in Values : DoneOnce(r, p, v)
  \/ UserCallbackReturn

\* Every root.setContext and every caller callback returns, and every root
\* a publish was dispatched to invokes the done callback.
Fairness ==
  /\ WF_vars(RootReturn)
  /\ WF_vars(UserCallbackReturn)
  /\ \A r \in Roots, p \in 1..MaxPublishes :
       WF_vars(\E v \in Values : DoneOnce(r, p, v))

SpecLive == Init /\ [][NextLive]_vars /\ Fairness

\* ---- one context more, with roots that keep their contract ----

CreateContextWide(defaultValue, calculateChangedBits) ==
  CreateContextUpTo(MaxContexts + 1, defaultValue, calculateChangedBits)

NextWide ==
  \/ \E d \in Values, f \in {"undefined", "null", "function"} :
        CreateContextWide(d, f)
  \/ MountBetween
  \/ \E r \in Roots : UnmountBetween(r)
  \/ \E c \in 1..(MaxContexts + 1), v \in Values, cb \in BOOLEAN :
        SetContext(c, v, cb)
  \/ RootReturn
  \/ \E r \in Roots, p \in 1..MaxPublishes, v \in Values : DoneOnce(r, p, v)
  \/ UserCallbackReturn

SpecWide == Init /\ [][NextWide]_vars

\* ---- one root more, one setContext call fewer ----

MountWide == MountUpTo(MaxRoots + 1)

SetContextOnce(c, newValue, userCallback) ==
  /\ Len(pubs) < MaxPublishes - 1
  /\ SetContext(c, newValue, userCallback)

NextRoots ==
  \/ \E d \in Values, f \in {"undefined", "null", "function"} :
        CreateContext(d, f)
  \/ MountWide
  \/ \E r \in Roots : Unmount(r)
  \/ \E c \in 1..MaxContexts, v \in Values, cb \in BOOLEAN :
        SetContextOnce(c, v, cb)
  \/ RootReturn
  \/ \E r \in Roots, p \in 1..MaxPublishes, v \in Values : Done(r, p, v)
  \/ UserCallbackReturn

SpecRoots == Init /\ [][NextRoots]_vars

\* ---- properties ----

\* The publish calls that took the barrier path with a caller callback.
BarrierPubs ==
  {p \in DOMAIN pubs : pubs[p].userCallback /\ Len(pubs[p].counted) >= 1}

\* The publish calls made while the registry was empty.
FastPubs == {p \in DOMAIN pubs : pubs[p].counted = <<>>}

\* C1 - Barrier correctness: for a publish with a caller callback and n >= 1
\* registered roots, the callback has not fired while fewer than n done calls
\* were made, and once n done calls were made it has fired, and it fired at
\* the n-th done call exactly.
BarrierCorrectness ==
  \A p \in BarrierPubs :
    LET pub == pubs[p]
        n   == Len(pub.counted)
    IN /\ DoneCalls(pub) < n => pub.fires = <<>>
       /\ DoneCalls(pub) >= n =>
            (Len(pub.fires) >= 1 /\ pub.fires[1].doneCalls = n)

\* Two roots counted, the second done call made from host code after
\* setContext returned, and the callback running because of it.
BarrierCorrectnessWitness ==
  \E p \in BarrierPubs :
    /\ Len(pubs[p].counted) = 2
    /\ pubs[p].returned
    /\ DoneCalls(pubs[p]) = 2
    /\ Len(pubs[p].fires) = 1
    /\ stack = <<UserCallbackFrame(p, "barrier")>>

\* Roots that keep their contract for publish p: every root the publish
\* dispatched to was counted, and none invoked the done callback twice.
WellBehavedRoots(p) ==
  /\ SeqToSet(pubs[p].dispatched) \subseteq SeqToSet(pubs[p].counted)
  /\ \A r \in Roots : pubs[p].doneBy[r] <= 1

\* C2 - Commit only at zero outstanding roots: for every publish made while
\* n >= 1 roots are registered, with or without a caller callback, every
\* write of _currentValue/_currentValue2 by that publish happens when all
\* counted roots have invoked their done callback.
CommitOnlyAtZero ==
  \A p \in DOMAIN pubs :
    (Len(pubs[p].counted) >= 1 /\ WellBehavedRoots(p)) =>
       \A cm \in pubs[p].commits : cm.outstanding = {}

\* The same statement for the publishes with a caller callback only.
CommitOnlyAtZeroWithCallback ==
  \A p \in BarrierPubs :
    WellBehavedRoots(p) => \A cm \in pubs[p].commits : cm.outstanding = {}

\* C3 - No double-fire: the caller callback of a publish is invoked at most
\* once, also when the done callback is invoked more than n times.
NoDoubleFire ==
  \A p \in DOMAIN pubs : Len(pubs[p].fires) <= 1

\* More done calls than counted roots, the counter below zero, one firing.
NoDoubleFireWitness ==
  \E p \in BarrierPubs :
    /\ DoneCalls(pubs[p]) > Len(pubs[p].counted)
    /\ pubs[p].numRootsThatNeedUpdate < 0
    /\ Len(pubs[p].fires) = 1

\* C4 - Snapshot consistency: when a setContext call with a caller callback
\* has returned, the roots it dispatched to are the roots it counted, in
\* the same order.
SnapshotConsistency ==
  \A p \in DOMAIN pubs :
    (pubs[p].userCallback /\ pubs[p].returned) =>
       pubs[p].dispatched = pubs[p].counted

\* C5 - Commit happens-before completion: whenever the caller callback is
\* invoked, on either path, both current slots already hold the newValue of
\* its publish call.
CommitBeforeCallback ==
  \A p \in DOMAIN pubs :
    \A i \in DOMAIN pubs[p].fires :
      /\ pubs[p].fires[i].currentValue = pubs[p].newValue
      /\ pubs[p].fires[i].currentValue2 = pubs[p].newValue

\* A callback fired on the path without roots and another fired by a
\* barrier, for different values.
CommitBeforeCallbackWitness ==
  \E p \in FastPubs, q \in BarrierPubs :
    /\ pubs[p].fires # <<>>
    /\ pubs[q].fires # <<>>
    /\ pubs[p].newValue # pubs[q].newValue


\* setContext call p returns in this step.
Returns(p) ==
  /\ p \in DOMAIN pubs'
  /\ pubs'[p].returned
  /\ (p \in DOMAIN pubs => ~pubs[p].returned)

\* A later setContext call on the context of p has been made by the end of
\* this step.
PublishedAgain(p) ==
  \E q \in DOMAIN pubs' : q > p /\ pubs'[q].context = pubs'[p].context

\* What the path without roots leaves behind, apart from the current slots.
FastPathEffects(pub) ==
  /\ Len(pub.fires) = (IF pub.userCallback THEN 1 ELSE 0)
  /\ pub.dispatched = <<>>
  /\ pub.wrappedCallback = "null"
  /\ pub.numRootsThatNeedUpdate = 0

CurrentIs(context, value) ==
  context._currentValue = value /\ context._currentValue2 = value

\* C6 (as stated) - No-consumer fast path: when a setContext call made
\* while the registry is empty returns, both current slots equal newValue,
\* the caller callback (if any) has been invoked exactly once, no root was
\* dispatched to and no barrier counter exists.
FastPathAsStated ==
  [][\A p \in 1..MaxPublishes :
       (Returns(p) /\ pubs'[p].counted = <<>>) =>
          /\ CurrentIs(contexts'[pubs'[p].context], pubs'[p].newValue)
          /\ FastPathEffects(pubs'[p])]_vars

\* C6 (amended) - the same, with the current slots equal to newValue when
\* the callback is invoked, and on return unless the callback made another
\* setContext call on the context.
FastPath ==
  [][\A p \in 1..MaxPublishes :
       (Returns(p) /\ pubs'[p].counted = <<>>) =>
          /\ FastPathEffects(pubs'[p])
          /\ \A i \in DOMAIN pubs'[p].fires :
               /\ pubs'[p].fires[i].currentValue = pubs'[p].newValue
               /\ pubs'[p].fires[i].currentValue2 = pubs'[p].newValue
          /\ ~PublishedAgain(p) =>
               CurrentIs(contexts'[pubs'[p].context], pubs'[p].newValue)]_vars

\* A publish with a callback made while the registry was empty has
\* returned, having changed the current slots, with nothing published
\* after it.
FastPathWitness ==
  \E p \in FastPubs :
    /\ pubs[p].userCallback
    /\ pubs[p].returned
    /\ p = Len(pubs)
    /\ pubs[p].newValue # pubs[p].oldValue
    /\ CurrentIs(contexts[pubs[p].context], pubs[p].newValue)

\* C7 (as stated) - Callback argument: whenever the caller callback is
\* invoked, its argument is the newValue of its publish call.
CallbackArgumentAsStated ==
  \A p \in DOMAIN pubs :
    \A i \in DOMAIN pubs[p].fires :
      pubs[p].fires[i].args = <<pubs[p].newValue>>

\* C7 (amended) - whenever the caller callback is invoked, on either path,
\* it is invoked without arguments.
CallbackArgument ==
  \A p \in DOMAIN pubs :
    \A i \in DOMAIN pubs[p].fires : pubs[p].fires[i].args = <<>>

\* The callback of a barrier over two roots is running, after the callback
\* of an earlier publish without roots has run.
CallbackArgumentWitness ==
  \E p \in FastPubs, q \in BarrierPubs :
    /\ pubs[p].fires # <<>>
    /\ Len(pubs[q].counted) = 2
    /\ InUserCallback /\ Top.pub = q

\* The latest setContext call made on context c.
LatestPub(c) ==
  LET ps == {p \in DOMAIN pubs : pubs[p].context = c}
  IN CHOOSE p \in ps : \A q \in ps : q <= p

\* C8 - Visibility precedence: in every state from the first dispatch of a
\* setContext call on, hence during every dispatch, commit and callback and
\* after the return, _globalValue holds the newValue of the latest call made
\* on the context, never an older one.
VisibilityPrecedence ==
  \A c \in DOMAIN contexts :
    IF \E p \in DOMAIN pubs : pubs[p].context = c
      THEN contexts[c]._globalValue = pubs[LatestPub(c)].newValue
      ELSE contexts[c]._globalValue = contexts[c].defaultValue

\* setContext has returned with both roots outstanding and nothing
\* committed: _globalValue is the new value, the current slots are not.
VisibilityPrecedenceWitness ==
  \E p \in DOMAIN pubs :
    /\ Idle
    /\ p = Len(pubs)
    /\ pubs[p].returned
    /\ Outstanding(pubs[p]) = {1, 2}
    /\ pubs[p].commits = {}
    /\ contexts[pubs[p].context]._globalValue = pubs[p].newValue
    /\ contexts[pubs[p].context]._currentValue # pubs[p].newValue

\* C9 - Independence across publishes: a done call for one publish changes
\* neither the counter nor the history of any other publish; the commit it
\* may cause writes the newValue of its own publish into its own context.
Independence ==
  [][\A p \in DOMAIN pubs :
       pubs'[p].doneBy # pubs[p].doneBy =>
         /\ \A q \in DOMAIN pubs \ {p} : pubs'[q] = pubs[q]
         /\ \A cm \in pubs'[p].commits : cm.value = pubs[p].newValue
         /\ \A c \in DOMAIN contexts :
              \/ contexts'[c] = contexts[c]
              \/ /\ c = pubs[p].context
                 /\ CurrentIs(contexts'[c], pubs[p].newValue)]_vars

\* A publish made from inside a root's setContext has completed and
\* committed its own value while the enclosing publish still waits for both
\* of its roots.
IndependenceWitness ==
  /\ Len(pubs) = 2
  /\ BarrierPubs = {1, 2}
  /\ pubs[1].context = pubs[2].context
  /\ pubs[2].caller = "root"
  /\ pubs[1].newValue # pubs[2].newValue
  /\ pubs[1].numRootsThatNeedUpdate = 2
  /\ pubs[1].fires = <<>>
  /\ Len(pubs[2].fires) = 1
  /\ CurrentIs(contexts[pubs[2].context], pubs[2].newValue)

\* C10 - Commit atomicity: in every state between two steps of the program
\* the two current slots of every context are equal.
CommitAtomicity ==
  \A c \in DOMAIN contexts :
    contexts[c]._currentValue = contexts[c]._currentValue2

\* A publish without callback has committed a value other than the default
\* through a root's done call.
CommitAtomicityWitness ==
  \E p \in DOMAIN pubs :
    /\ pubs[p].wrappedCallback = "bound"
    /\ pubs[p].commits # {}
    /\ contexts[pubs[p].context]._currentValue = pubs[p].newValue
    /\ pubs[p].newValue # contexts[pubs[p].context].defaultValue


\* Call p has reached Committed: it wrote its newValue into the current
\* slots and its caller callback, if any, fired.
Committed(p) ==
  /\ p \in DOMAIN pubs
  /\ pubs[p].commits # {}
  /\ \A cm \in pubs[p].commits : cm.value = pubs[p].newValue
  /\ pubs[p].userCallback => Len(pubs[p].fires) = 1

\* C11 - Eventual completion: when every dispatched root invokes the done
\* callback once and the registry is not mutated during a setContext call,
\* every setContext call made eventually reaches Committed.
EventualCompletion ==
  \A p \in 1..MaxPublishes : (p \in DOMAIN pubs) ~> Committed(p)

\* A publish with a callback over two roots has reached Committed after
\* both roots called back once, the last one from host code.
EventualCompletionWitness ==
  \E p \in BarrierPubs :
    /\ Committed(p)
    /\ pubs[p].dispatched = <<1, 2>>
    /\ \A r \in {1, 2} : pubs[p].doneBy[r] = 1
    /\ pubs[p].returned
    /\ Idle


\* The cell createContext(defaultValue, calculateChangedBits) returns.
InitialCell(defaultValue, calculateChangedBits) ==
  [ _calculateChangedBits |->
       IF calculateChangedBits = "undefined" THEN "null"
                                             ELSE calculateChangedBits,
    _globalValue   |-> defaultValue,
    _currentValue  |-> defaultValue,
    _currentValue2 |-> defaultValue,
    defaultValue   |-> defaultValue,
    supplied       |-> calculateChangedBits,
    committedBy    |-> 0 ]

\* C12 - Initial state: a step that creates a context appends a cell whose
\* three value slots equal defaultValue and whose change detector is the
\* supplied one, or null when none is supplied; it leaves the other
\* contexts, the registry, the publishes and the call stack as they are.
InitialState ==
  [][Len(contexts') # Len(contexts) =>
       /\ LET new == contexts'[Len(contexts')] IN
            contexts' =
              Append(contexts, InitialCell(new.defaultValue, new.supplied))
       /\ UNCHANGED <<first, nextGlobalRoot, numMounted, pubs, stack>>]_vars

\* A second context exists, created with another default and without a
\* change detector while a publish on the first one was outstanding; the
\* first context has kept its pending value.
InitialStateWitness ==
  /\ Len(contexts) = 2
  /\ contexts[2].supplied = "undefined"
  /\ contexts[2]._calculateChangedBits = "null"
  /\ contexts[1].supplied = "function"
  /\ contexts[1]._calculateChangedBits = "function"
  /\ contexts[2]._globalValue = contexts[2].defaultValue
  /\ contexts[2]._currentValue = contexts[2].defaultValue
  /\ contexts[2]._currentValue2 = contexts[2].defaultValue
  /\ contexts[2].defaultValue # contexts[1].defaultValue
  /\ \E p \in DOMAIN pubs :
       /\ pubs[p].context = 1
       /\ pubs[p].commits = {}
       /\ contexts[1]._globalValue = pubs[p].newValue
       /\ contexts[1]._globalValue # contexts[1]._currentValue


\* C13 - No completion before full dispatch: for a publish with a caller
\* callback and n >= 1 counted roots in which no root invoked the done
\* callback twice, the commit and the callback have run only if
\* root.setContext was invoked on every one of the n roots.
NoCompletionBeforeFullDispatch ==
  \A p \in BarrierPubs :
    ((\A r \in Roots : pubs[p].doneBy[r] <= 1) /\ pubs[p].fires # <<>>) =>
       SeqToSet(pubs[p].counted) \subseteq SeqToSet(pubs[p].dispatched)


\* The value _globalValue held immediately before call p: the newValue of
\* the call made before it on the same context, or the default.
PendingBefore(p) ==
  LET c  == pubs[p].context
      qs == {q \in DOMAIN pubs : q < p /\ pubs[q].context = c}
  IN IF qs = {} THEN contexts[c].defaultValue
     ELSE pubs[CHOOSE q \in qs : \A x \in qs : x <= q].newValue

\* Every root call p dispatched to was handed the same triple.
SameTriple(p) ==
  /\ Len(pubs[p].handed) = Len(pubs[p].dispatched)
  /\ \A i \in DOMAIN pubs[p].handed :
       pubs[p].handed[i] =
         <<pubs[p].context, PendingBefore(p), pubs[p].newValue>>

\* The places of x in the sequence s.
Places(s, x) == {i \in DOMAIN s : s[i] = x}

\* The roots of s that are in t come in s in the order they have in t.
InOrderOf(s, t) ==
  \A i, j \in DOMAIN s :
    (i < j /\ Places(t, s[i]) # {} /\ Places(t, s[j]) # {}) =>
       \A a \in Places(t, s[i]), b \in Places(t, s[j]) : a < b

\* C14 - Dispatch arguments and order: a setContext call invokes
\* root.setContext at most once on a root and in registry order, by the
\* time it returns exactly once on each root registered at the call, and
\* it hands every root the same triple (context, value of _globalValue
\* before the call, newValue).
DispatchOrder ==
  \A p \in DOMAIN pubs :
    /\ \A r \in Roots : Cardinality(Places(pubs[p].dispatched, r)) <= 1
    /\ InOrderOf(pubs[p].dispatched, pubs[p].counted)
    /\ pubs[p].returned =>
         \A r \in SeqToSet(pubs[p].counted) :
           Cardinality(Places(pubs[p].dispatched, r)) = 1
    /\ SameTriple(p)

\* The parts of C14 that do not depend on the registry staying as it is
\* during the call.
DispatchArguments ==
  \A p \in DOMAIN pubs :
    /\ \A r \in Roots : Cardinality(Places(pubs[p].dispatched, r)) <= 1
    /\ InOrderOf(pubs[p].dispatched, pubs[p].counted)
    /\ SameTriple(p)

\* What C15 says of the counter of publish p.
CounterAsStated(p) ==
  /\ DoneCalls(pubs[p]) = 0 =>
       pubs[p].numRootsThatNeedUpdate = Len(pubs[p].counted)
  /\ pubs[p].numRootsThatNeedUpdate >= 0
  /\ pubs[p].numRootsThatNeedUpdate = Cardinality(Outstanding(pubs[p]))

\* C15 - Barrier counter invariant: for every setContext call with a caller
\* callback and n >= 1 roots, the counter starts at n, is never negative and
\* is the number of counted roots that have not yet invoked done; stated
\* for the calls on which no root has invoked done more than once.
BarrierCounter ==
  \A p \in BarrierPubs :
    (\A r \in Roots : pubs[p].doneBy[r] <= 1) => CounterAsStated(p)

\* C15 without the condition on the roots: a root that invokes done twice
\* takes the counter below the number of outstanding roots, and below zero.
BarrierCounterAnyRoot == \A p \in BarrierPubs : CounterAsStated(p)

\* What the code keeps: the counter is n minus the number of done calls.
BarrierCounterCode ==
  \A p \in BarrierPubs :
    pubs[p].numRootsThatNeedUpdate = Len(pubs[p].counted) - DoneCalls(pubs[p])

\* A step of the core: of setContext, of its dispatch loop, of the wrapped
\* callback or of the return from the caller callback.
CoreStep == pubs' # pubs \/ stack' # stack

\* The setContext call p acts in this step.
Acting(p) ==
  /\ p \in DOMAIN pubs'
  /\ p \in DOMAIN pubs => pubs'[p] # pubs[p]

\* The call made in this step, if one is made.
Publishing(p) == p = Len(pubs') /\ Len(pubs') = Len(pubs) + 1

\* What a step of the core may do to the cell of context c.
CellFrame(c) ==
  LET old == contexts[c]
      new == contexts'[c]
  IN /\ new._calculateChangedBits = old._calculateChangedBits
     /\ new.defaultValue = old.defaultValue
     /\ new.supplied = old.supplied
     /\ new._globalValue # old._globalValue =>
          \E p \in 1..MaxPublishes :
             /\ Publishing(p)
             /\ pubs'[p].context = c
             /\ new._globalValue = pubs'[p].newValue
     /\ (new._currentValue # old._currentValue
           \/ new._currentValue2 # old._currentValue2) =>
          \E p \in 1..MaxPublishes :
             /\ Acting(p)
             /\ pubs'[p].context = c
             /\ pubs'[p].commits # {}
             /\ new.committedBy = p
             /\ CurrentIs(new, pubs'[p].newValue)
     /\ new # old =>
          \E p \in 1..MaxPublishes : Acting(p) /\ pubs'[p].context = c

\* C16 - Frame of publish: a step of the core leaves ReactRootList.first
\* and every nextGlobalRoot as they are, creates no context, leaves every
\* _calculateChangedBits as it is, writes _globalValue of the context of the
\* call only when the call is made, writes _currentValue/_currentValue2 of
\* the context of the call only at a commit, and leaves the cells of the
\* other contexts as they are.
FrameOfPublish ==
  [][CoreStep =>
       /\ UNCHANGED <<first, nextGlobalRoot, numMounted>>
       /\ DOMAIN contexts' = DOMAIN contexts
       /\ \A c \in DOMAIN contexts : CellFrame(c)]_vars

\* Two contexts; a call on one has committed a value other than the
\* default through a done call while the other context has a call of its
\* own pending, and each cell holds what its own calls wrote.
FrameOfPublishWitness ==
  \E p, q \in DOMAIN pubs :
    /\ pubs[p].context # pubs[q].context
    /\ pubs[p].counted # <<>>
    /\ pubs[p].commits # {}
    /\ pubs[q].commits = {}
    /\ pubs[p].newValue # contexts[pubs[p].context].defaultValue
    /\ pubs[q].newValue # contexts[pubs[q].context].defaultValue
    /\ CurrentIs(contexts[pubs[p].context], pubs[p].newValue)
    /\ CurrentIs(contexts[pubs[q].context],
                 contexts[pubs[q].context].defaultValue)
    /\ contexts[pubs[q].context]._globalValue = pubs[q].newValue

\* The setContext calls made on context c.
PubsOn(c) == {p \in DOMAIN pubs : pubs[p].context = c}

\* No propagation of context c is outstanding: every call on it has
\* returned, every root it dispatched to or counted has invoked done, and
\* it has committed.
Quiescent(c) ==
  \A p \in PubsOn(c) :
    /\ pubs[p].returned
    /\ Outstanding(pubs[p]) = {}
    /\ \A r \in SeqToSet(pubs[p].dispatched) : pubs[p].doneBy[r] >= 1
    /\ pubs[p].commits # {}
    /\ pubs[p].userCallback => Len(pubs[p].fires) >= 1

\* C17 - Convergence to the latest published value: in every state in
\* which no propagation of a context is outstanding, _currentValue,
\* _currentValue2 and _globalValue of its cell are equal, whatever the
\* order in which the done callbacks of overlapping calls were invoked.
Convergence ==
  \A c \in DOMAIN contexts :
    (Idle /\ Quiescent(c)) => CurrentIs(contexts[c], contexts[c]._globalValue)

\* What the code keeps instead: the current slots hold the newValue of the
\* call that committed last, which need not be the latest call.
CommittedByLast ==
  \A c \in DOMAIN contexts :
    IF contexts[c].committedBy = 0
      THEN CurrentIs(contexts[c], contexts[c].defaultValue)
      ELSE /\ contexts[c].committedBy \in PubsOn(c)
           /\ CurrentIs(contexts[c], pubs[contexts[c].committedBy].newValue)

\* The values a commit on context c may write: the newValue of the
\* setContext calls made on it so far.
PublishedOn(c) == {pubs[p].newValue : p \in PubsOn(c)}

\* C18 - Committed values are published values: _currentValue and
\* _currentValue2 of a cell each hold the context's defaultValue or the
\* newValue of a setContext call already made on that context, and every
\* value a call has committed, whatever argument the roots passed to its
\* done callback, is the newValue of that call.
PublishedValuesOnly ==
  /\ \A c \in DOMAIN contexts :
       LET allowed == {contexts[c].defaultValue} \cup PublishedOn(c)
       IN /\ contexts[c]._currentValue \in allowed
          /\ contexts[c]._currentValue2 \in allowed
          /\ contexts[c].committedBy # 0 =>
               /\ contexts[c].committedBy \in PubsOn(c)
               /\ contexts[c]._currentValue =
                    pubs[contexts[c].committedBy].newValue
  /\ \A p \in DOMAIN pubs :
       \A commit \in pubs[p].commits : commit.value = pubs[p].newValue

\* A call made while a root was registered has committed, through done
\* calls of the roots, its newValue, which is not the default and not the
\* only value a root could have passed.
PublishedValuesOnlyWitness ==
  \E p \in DOMAIN pubs :
    /\ pubs[p].counted # <<>>
    /\ DoneCalls(pubs[p]) >= 1
    /\ pubs[p].commits # {}
    /\ contexts[pubs[p].context].committedBy = p
    /\ pubs[p].newValue # contexts[pubs[p].context].defaultValue
    /\ Values \ {pubs[p].newValue} # {}
    /\ CurrentIs(contexts[pubs[p].context], pubs[p].newValue)

====
